---- MODULE Spec2Model ----
(***************************************************************************)
(* Model of update.py: the synchronisation of the languages.json catalog   *)
(* with the per-locale language files of the latest Minecraft release.     *)
(*                                                                         *)
(* Strings the code takes apart (file names, locale codes) are sequences   *)
(* of one-character strings; the other strings are opaque TLA+ strings.    *)
(* Python dicts are functions whose DOMAIN is the set of keys present.     *)
(***************************************************************************)
EXTENDS Naturals, Sequences, FiniteSets

VARIABLES
    pc,         \* position of main(): start, resolved, loaded, loop, done, aborted
    disk,       \* languages.json: [exists |-> BOOLEAN, content |-> dict]
    languages,  \* the in-memory catalog of main()
    files,      \* the filtered listing main() iterates over
    idx,        \* position of the for loop in files (1-based)
    run,        \* number of the current run of the program
    loaded,     \* history: the catalog as it was loaded in this run
    startDisk,  \* history: languages.json as it was when this run started
    fatal,      \* history: the uncaught error that ended this run, or "none"
    attempts,   \* history: one entry per loop iteration of this run
    call        \* history: the last call of merge_lang_info in this run

vars == <<pc, disk, languages, files, idx, run, loaded, startDisk, fatal, attempts, call>>

----------------------------------------------------------------------------
(* Bounds of the model *)

MaxRuns == 2
MaxFiles == 2

----------------------------------------------------------------------------
(* Python dict and str primitives *)

EmptyDict == [x \in {} |-> x]

Get(d, k, default) == IF k \in DOMAIN d THEN d[k] ELSE default

SetItem(d, k, v) == [x \in (DOMAIN d) \cup {k} |-> IF x = k THEN v ELSE d[x]]

LowerAlphabet ==
    <<"a","b","c","d","e","f","g","h","i","j","k","l","m",
      "n","o","p","q","r","s","t","u","v","w","x","y","z">>

UpperAlphabet ==
    <<"A","B","C","D","E","F","G","H","I","J","K","L","M",
      "N","O","P","Q","R","S","T","U","V","W","X","Y","Z">>

str_lower(s) ==
    [i \in 1..Len(s) |->
        IF \E j \in 1..Len(UpperAlphabet) : UpperAlphabet[j] = s[i]
        THEN LowerAlphabet[CHOOSE j \in 1..Len(UpperAlphabet) : UpperAlphabet[j] = s[i]]
        ELSE s[i]]

str_upper(s) ==
    [i \in 1..Len(s) |->
        IF \E j \in 1..Len(LowerAlphabet) : LowerAlphabet[j] = s[i]
        THEN UpperAlphabet[CHOOSE j \in 1..Len(LowerAlphabet) : LowerAlphabet[j] = s[i]]
        ELSE s[i]]

RECURSIVE str_split(_)
str_split(s) ==
    IF s = <<>> THEN << <<>> >>
    ELSE LET rest == str_split(Tail(s))
         IN  IF Head(s) = "_"
             THEN << <<>> >> \o rest
             ELSE << <<Head(s)>> \o Head(rest) >> \o Tail(rest)

JsonSuffix == <<".","j","s","o","n">>

endswith(s, suffix) ==
    /\ Len(s) >= Len(suffix)
    /\ SubSeq(s, Len(s) - Len(suffix) + 1, Len(s)) = suffix

removesuffix(s, suffix) ==
    IF suffix # <<>> /\ endswith(s, suffix)
    THEN SubSeq(s, 1, Len(s) - Len(suffix))
    ELSE s

----------------------------------------------------------------------------
(* The reference table of pycountry: languages are indexed by their        *)
(* three-letter code, countries by their two-letter code.  get() returns   *)
(* the entry or None.                                                      *)

None == [none |-> TRUE]

pycountry_languages ==
    { [alpha_3 |-> <<"d","e","u">>, name |-> "German"],
      [alpha_3 |-> <<"f","i","l">>, name |-> "Filipino"] }

pycountry_countries ==
    { [alpha_2 |-> <<"D","E">>, name |-> "Germany"],
      [alpha_2 |-> <<"P","H">>, name |-> "Philippines"] }

languages_get(alpha_3) ==
    IF \E e \in pycountry_languages : e.alpha_3 = alpha_3
    THEN CHOOSE e \in pycountry_languages : e.alpha_3 = alpha_3
    ELSE None

countries_get(alpha_2) ==
    IF \E e \in pycountry_countries : e.alpha_2 = alpha_2
    THEN CHOOSE e \in pycountry_countries : e.alpha_2 = alpha_2
    ELSE None

----------------------------------------------------------------------------
(* get_locale_details: the English language and country name of a locale   *)

get_locale_details(locale) ==
    LET parts == str_split(locale)
    IN  IF Len(parts) = 2
        THEN LET language == languages_get(str_lower(parts[1]))
                 country  == countries_get(str_upper(parts[2]))
             IN  << IF language # None THEN language.name ELSE "?",
                    IF country # None THEN country.name ELSE "?" >>
        ELSE << "?", "?" >>

(* get_lang_info applied to the response of the request for one language   *)
(* file.  [raised |-> TRUE] is an exception leaving the function.          *)

get_lang_info(response) ==
    IF response.status_code = 200
    THEN LET data == response.data
         IN  IF "language.code" \notin DOMAIN data
             THEN [raised |-> TRUE]
             ELSE LET locale == data["language.code"]
                      details == get_locale_details(locale)
                  IN  IF \/ "language.name" \notin DOMAIN data
                         \/ "language.region" \notin DOMAIN data
                      THEN [raised |-> TRUE]
                      ELSE [raised |-> FALSE,
                            value |->
                              [iso_code |-> locale,
                               native |-> [name |-> data["language.name"],
                                           region |-> data["language.region"]],
                               english |-> [name |-> details[1],
                                            region |-> details[2]]]]
    ELSE [raised |-> TRUE]

----------------------------------------------------------------------------
(* merge_lang_info.  merged is a shallow copy of existing, so the english  *)
(* section is one object reached from both: an assignment to               *)
(* merged[section][k] is seen through existing too.  The state of a call   *)
(* is [existing, merged, raised].                                          *)

OverrideKey(field) == IF field = "name" THEN "override_name" ELSE "override_region"

AssignSection(st, section, k, v) ==
    IF st.raised THEN st
    ELSE IF section \notin DOMAIN st.merged
    THEN [st EXCEPT !.raised = TRUE]
    ELSE [st EXCEPT !.merged = SetItem(@, section, SetItem(st.merged[section], k, v)),
                    !.existing = SetItem(@, section, SetItem(st.merged[section], k, v))]

\* variant: the override flag of the existing record is not consulted
MergeField_IgnoresOverride(st, new, section, field) ==
    IF st.raised THEN st
    ELSE
    LET override_key   == OverrideKey(field)
        new_value      == new[section][field]
        existing_value == Get(Get(st.existing, section, EmptyDict), field, "?")
    IN  IF new_value = "?"
        THEN AssignSection(st, section, field, existing_value)
        ELSE LET st1 == AssignSection(st, section, field, new_value)
             IN  IF ~st1.raised /\ override_key \in DOMAIN Get(st1.existing, section, EmptyDict)
                 THEN AssignSection(st1, section, override_key,
                                    st1.existing[section][override_key])
                 ELSE st1

\* variant: a new value is adopted even when it is the placeholder
MergeField_AdoptsPlaceholder(st, new, section, field) ==
    IF st.raised THEN st
    ELSE
    LET override_key   == OverrideKey(field)
        is_overridden  == Get(Get(st.existing, section, EmptyDict), override_key, FALSE)
        new_value      == new[section][field]
        existing_value == Get(Get(st.existing, section, EmptyDict), field, "?")
    IN  IF is_overridden
        THEN AssignSection(AssignSection(st, section, field, existing_value),
                           section, override_key, TRUE)
        ELSE LET st1 == AssignSection(st, section, field, new_value)
             IN  IF ~st1.raised /\ override_key \in DOMAIN Get(st1.existing, section, EmptyDict)
                 THEN AssignSection(st1, section, override_key,
                                    st1.existing[section][override_key])
                 ELSE st1

\* variant: adopting a new value rebuilds the section without the field's flag
MergeField_DropsFlag(st, new, section, field) ==
    IF st.raised THEN st
    ELSE
    LET override_key   == OverrideKey(field)
        is_overridden  == Get(Get(st.existing, section, EmptyDict), override_key, FALSE)
        new_value      == new[section][field]
        existing_value == Get(Get(st.existing, section, EmptyDict), field, "?")
        Without(d, k)  == [x \in (DOMAIN d) \ {k} |-> d[x]]
    IN  IF is_overridden
        THEN AssignSection(AssignSection(st, section, field, existing_value),
                           section, override_key, TRUE)
        ELSE IF new_value = "?"
        THEN AssignSection(st, section, field, existing_value)
        ELSE LET st1 == AssignSection(st, section, field, new_value)
             IN  IF st1.raised THEN st1
                 ELSE [st1 EXCEPT
                         !.merged = SetItem(@, section, Without(st1.merged[section], override_key)),
                         !.existing = SetItem(@, section, Without(st1.merged[section], override_key))]

\* variant: the flag is written back whether or not the existing record had it
MergeField_AlwaysWritesFlag(st, new, section, field) ==
    IF st.raised THEN st
    ELSE
    LET override_key   == OverrideKey(field)
        is_overridden  == Get(Get(st.existing, section, EmptyDict), override_key, FALSE)
        new_value      == new[section][field]
        existing_value == Get(Get(st.existing, section, EmptyDict), field, "?")
    IN  IF is_overridden
        THEN AssignSection(AssignSection(st, section, field, existing_value),
                           section, override_key, TRUE)
        ELSE IF new_value = "?"
        THEN AssignSection(st, section, field, existing_value)
        ELSE AssignSection(AssignSection(st, section, field, new_value),
                           section, override_key, is_overridden)

MergeField(st, new, section, field) ==
    IF st.raised THEN st
    ELSE
    LET override_key   == OverrideKey(field)
        is_overridden  == Get(Get(st.existing, section, EmptyDict), override_key, FALSE)
        new_value      == new[section][field]
        existing_value == Get(Get(st.existing, section, EmptyDict), field, "?")
    IN  IF is_overridden
        THEN AssignSection(AssignSection(st, section, field, existing_value),
                           section, override_key, TRUE)
        ELSE IF new_value = "?"
        THEN AssignSection(st, section, field, existing_value)
        ELSE LET st1 == AssignSection(st, section, field, new_value)
             IN  IF ~st1.raised /\ override_key \in DOMAIN Get(st1.existing, section, EmptyDict)
                 THEN AssignSection(st1, section, override_key,
                                    st1.existing[section][override_key])
                 ELSE st1

\* variant: the native section of the existing record is kept
merge_lang_info_KeepsNative(existing, new) ==
    LET st0 == [existing |-> existing, merged |-> existing, raised |-> FALSE]
        st1 == MergeField(st0, new, "english", "name")
        st2 == MergeField(st1, new, "english", "region")
    IN  IF st2.raised THEN st2
        ELSE [st2 EXCEPT !.merged = SetItem(@, "iso_code", new["iso_code"])]

\* variant: no copy is taken and iso_code and native are assigned first
merge_lang_info_InPlace(existing, new) ==
    LET replaced == SetItem(SetItem(existing, "iso_code", new["iso_code"]),
                            "native", new["native"])
        st0 == [existing |-> replaced, merged |-> replaced, raised |-> FALSE]
        st1 == MergeField(st0, new, "english", "name")
    IN  MergeField(st1, new, "english", "region")

merge_lang_info(existing, new) ==
    LET st0 == [existing |-> existing, merged |-> existing, raised |-> FALSE]
        st1 == MergeField(st0, new, "english", "name")
        st2 == MergeField(st1, new, "english", "region")
    IN  IF st2.raised THEN st2
        ELSE [st2 EXCEPT !.merged =
                 SetItem(SetItem(@, "iso_code", new["iso_code"]), "native", new["native"])]

----------------------------------------------------------------------------
(* The environment: what the remote endpoints can answer and what          *)
(* languages.json can hold when the program starts.                        *)

F_de_de      == <<"d","e","_","d","e",".","j","s","o","n">>
F_fil_ph     == <<"f","i","l","_","p","h",".","j","s","o","n">>
F_deprecated == <<"d","e","p","r","e","c","a","t","e","d",".","j","s","o","n">>
F_de_de_lang == <<"d","e","_","d","e",".","l","a","n","g">>

K_de_de  == <<"d","e","_","d","e">>
K_fil_ph == <<"f","i","l","_","p","h">>

ListedNames == {F_de_de, F_fil_ph, F_deprecated, F_de_de_lang}

\* the listings of _list.json: the names of a directory, each at most once
Listings ==
    { s \in UNION { [1..n -> ListedNames] : n \in 0..MaxFiles } :
        \A i, j \in DOMAIN s : i # j => s[i] # s[j] }

D_de_de ==
    [x \in {"language.code", "language.name", "language.region"} |->
        IF x = "language.code" THEN K_de_de
        ELSE IF x = "language.name" THEN "Deutsch" ELSE "Deutschland"]

D_fil_ph ==
    [x \in {"language.code", "language.name", "language.region"} |->
        IF x = "language.code" THEN K_fil_ph
        ELSE IF x = "language.name" THEN "Filipino" ELSE "Pilipinas"]

D_tok ==
    [x \in {"language.code", "language.name", "language.region"} |->
        IF x = "language.code" THEN <<"t","o","k">>
        ELSE IF x = "language.name" THEN "toki pona" ELSE "ma pona"]

D_no_region ==
    [x \in {"language.code", "language.name"} |->
        IF x = "language.code" THEN K_de_de ELSE "Deutsch"]

\* the answers to the request for one language file
Responses ==
    { [status_code |-> 200, data |-> d] : d \in {D_de_de, D_fil_ph, D_tok, D_no_region} }
    \cup { [status_code |-> 404, data |-> EmptyDict] }

\* the english sections a catalog written by earlier runs and edited by hand
\* can hold: name and region, each with its override flag absent, false or true
EnglishSections ==
    { [k \in {"name", "region"} \cup flags |->
          IF k = "name" THEN nr[1]
          ELSE IF k = "region" THEN nr[2]
          ELSE k \in on] :
        nr \in { <<"?", "?">>, <<"Custom", "Customland">>,
                 <<"Custom", "?">>, <<"?", "Customland">> },
        flags \in SUBSET {"override_name", "override_region"},
        on \in SUBSET {"override_name", "override_region"} }

OldNative == [name |-> "Deutsch (alt)", region |-> "Deutschland (alt)"]

ExistingRecords ==
    { [iso_code |-> <<"d","e","_","D","E">>, native |-> OldNative, english |-> e] :
        e \in EnglishSections }
    \cup { [iso_code |-> <<"d","e","_","D","E">>, native |-> OldNative] }

PlainRecord ==
    [iso_code |-> K_fil_ph,
     native |-> [name |-> "Filipino", region |-> "Pilipinas"],
     english |-> [name |-> "Filipino", region |-> "Philippines"]]

ExistingCatalogs ==
    { c \in UNION { [ks -> ExistingRecords \cup {PlainRecord}] : ks \in SUBSET {K_de_de, K_fil_ph} } :
        /\ K_de_de \in DOMAIN c => c[K_de_de] \in ExistingRecords
        /\ K_fil_ph \in DOMAIN c => c[K_fil_ph] = PlainRecord }

NoCall == [made |-> FALSE]

----------------------------------------------------------------------------
(* main() *)

Init ==
    /\ pc = "start"
    /\ disk \in { [exists |-> FALSE, content |-> EmptyDict] }
                \cup { [exists |-> TRUE, content |-> c] : c \in ExistingCatalogs }
    /\ languages = EmptyDict
    /\ files = <<>>
    /\ idx = 1
    /\ run = 1
    /\ loaded = EmptyDict
    /\ startDisk = disk
    /\ fatal = "none"
    /\ attempts = <<>>
    /\ call = NoCall

\* line 107: the manifest request answers with the latest release
GetLatestVersion ==
    /\ pc = "start"
    /\ pc' = "resolved"
    /\ UNCHANGED <<disk, languages, files, idx, run, loaded, startDisk, fatal, attempts, call>>

\* line 107: the manifest request raises, or its answer lacks the release
GetLatestVersionFails ==
    /\ pc = "start"
    /\ pc' = "aborted"
    /\ fatal' = "version"
    /\ UNCHANGED <<disk, languages, files, idx, run, loaded, startDisk, attempts, call>>

\* variant: the catalog file is read but the run starts from an empty catalog
LoadLanguages_StartsEmpty ==
    /\ pc = "resolved"
    /\ languages' = EmptyDict
    /\ loaded' = IF disk.exists THEN disk.content ELSE EmptyDict
    /\ pc' = "loaded"
    /\ UNCHANGED <<disk, files, idx, run, startDisk, fatal, attempts, call>>

\* lines 111-117
LoadLanguages ==
    /\ pc = "resolved"
    /\ languages' = IF disk.exists THEN disk.content ELSE EmptyDict
    /\ loaded' = languages'
    /\ pc' = "loaded"
    /\ UNCHANGED <<disk, files, idx, run, startDisk, fatal, attempts, call>>

FilterFiles(listing) ==
    SelectSeq(listing, LAMBDA f : endswith(f, JsonSuffix) /\ f # F_deprecated)

\* line 119, get_available_lang_files answering 200
GetAvailableLangFiles ==
    /\ pc = "loaded"
    /\ \E listing \in Listings : files' = FilterFiles(listing)
    /\ idx' = 1
    /\ pc' = "loop"
    /\ UNCHANGED <<disk, languages, run, loaded, startDisk, fatal, attempts, call>>

\* variant: the failed listing is taken for an empty one and the run goes on
GetAvailableLangFilesFails_GoesOn ==
    /\ pc = "loaded"
    /\ files' = <<>>
    /\ idx' = 1
    /\ pc' = "loop"
    /\ fatal' = "listing"
    /\ UNCHANGED <<disk, languages, run, loaded, startDisk, attempts, call>>

\* line 119, get_available_lang_files raising RuntimeError (line 37)
GetAvailableLangFilesFails ==
    /\ pc = "loaded"
    /\ pc' = "aborted"
    /\ fatal' = "listing"
    /\ UNCHANGED <<disk, languages, files, idx, run, loaded, startDisk, attempts, call>>

\* variant: the exception is not caught and ends the run
ExceptHandler_Uncaught == "aborted"

\* lines 136-138: the handler logs the exception and the loop goes on
ExceptHandler == "loop"

\* lines 122-138: one iteration of the loop
ProcessFile ==
    /\ pc = "loop"
    /\ idx <= Len(files)
    /\ \E response \in Responses :
         LET lang_file == files[idx]
             key  == removesuffix(lang_file, JsonSuffix)
             info == get_lang_info(response)
             m    == merge_lang_info(languages[key], info.value)
             entry(ok) == [file |-> lang_file, key |-> key, response |-> response,
                           ok |-> ok, before |-> languages, after |-> languages']
         IN  IF info.raised
             THEN /\ languages' = languages
                  /\ call' = call
                  /\ attempts' = Append(attempts, entry(FALSE))
             ELSE IF key \in DOMAIN languages
             THEN /\ call' = [made |-> TRUE, existing |-> languages[key],
                              new |-> info.value, ret |-> m]
                  /\ IF m.raised
                     THEN /\ languages' = SetItem(languages, key, m.existing)
                          /\ attempts' = Append(attempts, entry(FALSE))
                     ELSE /\ languages' = SetItem(languages, key, m.merged)
                          /\ attempts' = Append(attempts, entry(TRUE))
             ELSE /\ languages' = SetItem(languages, key, info.value)
                  /\ call' = call
                  /\ attempts' = Append(attempts, entry(TRUE))
    /\ idx' = idx + 1
    /\ pc' = IF attempts'[Len(attempts')].ok THEN "loop" ELSE ExceptHandler
    /\ UNCHANGED <<disk, files, run, loaded, startDisk, fatal>>

\* lines 140-143
SaveLanguages ==
    /\ pc = "loop"
    /\ idx > Len(files)
    /\ disk' = [exists |-> TRUE, content |-> languages]
    /\ pc' = "done"
    /\ UNCHANGED <<languages, files, idx, run, loaded, startDisk, fatal, attempts, call>>

\* the program is started again on the catalog the last run left
NextRun ==
    /\ pc \in {"done", "aborted"}
    /\ run < MaxRuns
    /\ run' = run + 1
    /\ pc' = "start"
    /\ languages' = EmptyDict
    /\ files' = <<>>
    /\ idx' = 1
    /\ loaded' = EmptyDict
    /\ startDisk' = disk
    /\ fatal' = "none"
    /\ attempts' = <<>>
    /\ call' = NoCall
    /\ UNCHANGED disk

Next ==
    \/ GetLatestVersion
    \/ GetLatestVersionFails
    \/ LoadLanguages
    \/ GetAvailableLangFiles
    \/ GetAvailableLangFilesFails
    \/ ProcessFile
    \/ SaveLanguages
    \/ NextRun

Spec == Init /\ [][Next]_vars

----------------------------------------------------------------------------
(* Vocabulary of the properties *)

Fields == {"name", "region"}

HasEnglish(r) == "english" \in DOMAIN r

\* record r carries the flag override_<f> with value TRUE
Overridden(r, f) ==
    /\ HasEnglish(r)
    /\ OverrideKey(f) \in DOMAIN r["english"]
    /\ r["english"][OverrideKey(f)] = TRUE

\* record r has a known (non-placeholder) english.<f>
KnownField(r, f) ==
    /\ HasEnglish(r)
    /\ f \in DOMAIN r["english"]
    /\ r["english"][f] # "?"

\* merge_lang_info was called in this run and returned
Returned == call.made /\ ~call.ret.raised

\* the catalogs a run passes through, in order: loaded, after each iteration
CatalogSteps ==
    { <<attempts[i].before, attempts[i].after>> : i \in DOMAIN attempts }
    \cup { <<startDisk.content, disk.content>> }

KeyOf(f) == removesuffix(f, JsonSuffix)

----------------------------------------------------------------------------
\* C1: Override preservation. When the existing record has override_<f> = true,
\* merge_lang_info returns a record whose english.<f> is the existing value and
\* whose override_<f> is still true; and from one catalog of a run to the next
\* (and from the catalog file before a run to the file after it) an overridden
\* value and its flag do not change.
C1_OverridePreservation ==
    \A f \in Fields :
        /\ (call.made /\ Overridden(call.existing, f)) =>
              /\ ~call.ret.raised
              /\ call.ret.merged["english"][f] = call.existing["english"][f]
              /\ call.ret.merged["english"][OverrideKey(f)] = TRUE
        /\ \A step \in CatalogSteps : \A k \in DOMAIN step[1] :
              Overridden(step[1][k], f) =>
                 /\ k \in DOMAIN step[2]
                 /\ Overridden(step[2][k], f)
                 /\ step[2][k]["english"][f] = step[1][k]["english"][f]

\* a merge with an overridden name met a new record with another, known name
C1_Witness ==
    /\ Returned
    /\ Overridden(call.existing, "name")
    /\ call.existing["english"]["name"] = "Custom"
    /\ call.new["english"]["name"] = "Filipino"
    /\ pc = "done"

\* C2: Placeholder non-clobber. When the existing english.<f> is known and the new
\* english.<f> is "?", the merged english.<f> is the existing value; and a field
\* that is known in one catalog of a run is known in the next.
C2_PlaceholderNonClobber ==
    \A f \in Fields :
        /\ (call.made /\ KnownField(call.existing, f) /\ call.new["english"][f] = "?") =>
              /\ ~call.ret.raised
              /\ call.ret.merged["english"][f] = call.existing["english"][f]
        /\ \A step \in CatalogSteps : \A k \in DOMAIN step[1] :
              KnownField(step[1][k], f) =>
                 /\ k \in DOMAIN step[2]
                 /\ KnownField(step[2][k], f)

\* a merge without override met a known region and a fetched region "?"
C2_Witness ==
    /\ Returned
    /\ KnownField(call.existing, "region")
    /\ ~Overridden(call.existing, "region")
    /\ call.new["english"]["region"] = "?"
    /\ pc = "done"

\* C3: Wholesale replace. The record merge_lang_info returns has the iso_code and
\* the native section of the new record, whatever the existing record holds and
\* whatever its override flags are.
C3_WholesaleReplace ==
    Returned =>
        /\ call.ret.merged["iso_code"] = call.new["iso_code"]
        /\ call.ret.merged["native"] = call.new["native"]

\* a merge of a record with both overrides set whose iso_code and native differ
\* from the new ones
C3_Witness ==
    /\ Returned
    /\ Overridden(call.existing, "name")
    /\ Overridden(call.existing, "region")
    /\ call.existing["iso_code"] # call.new["iso_code"]
    /\ call.existing["native"] # call.new["native"]

\* C4: Override flags are never cleared by merging. A flag override_<f> the
\* existing english section carries, true or false, is carried with the same
\* value by the merged record, and by the next catalog of the run.
C4_FlagsPersist ==
    \A f \in Fields :
        LET key == OverrideKey(f)
            Carries(r) == HasEnglish(r) /\ key \in DOMAIN r["english"]
        IN  /\ (call.made /\ Carries(call.existing)) =>
                  /\ ~call.ret.raised
                  /\ Carries(call.ret.merged)
                  /\ call.ret.merged["english"][key] = call.existing["english"][key]
            /\ \A step \in CatalogSteps : \A k \in DOMAIN step[1] :
                  Carries(step[1][k]) =>
                     /\ k \in DOMAIN step[2]
                     /\ Carries(step[2][k])
                     /\ step[2][k]["english"][key] = step[1][k]["english"][key]

\* a merge adopted a new name while the existing record carried override_name = false
C4_Witness ==
    /\ Returned
    /\ "override_name" \in DOMAIN call.existing["english"]
    /\ call.existing["english"]["override_name"] = FALSE
    /\ call.new["english"]["name"] # "?"
    /\ call.ret.merged["english"]["name"] = call.new["english"]["name"]
    /\ pc = "done"

\* C5: Fatal setup errors abort without saving. After a failure of the version
\* resolution or of the listing fetch the run is over: no file was fetched, no
\* record merged, and languages.json is what it was before the run.
C5_FatalAbortsWithoutSave ==
    fatal # "none" =>
        /\ pc = "aborted"
        /\ attempts = <<>>
        /\ ~call.made
        /\ disk = startDisk

\* the listing fetch failed in a run that had loaded a catalog with records
C5_Witness ==
    /\ fatal = "listing"
    /\ DOMAIN loaded # {}
    /\ pc = "aborted"

\* C6: Per-file failures are recovered locally. The loop visits the listed files
\* in order whatever fails, it is left only through the save, and the saved
\* catalog holds, for every file processed successfully, its new record or the
\* merge of its loaded record with the new one.
C6_PerFileRecovery ==
    /\ pc \in {"loop", "done"} =>
          /\ Len(attempts) = idx - 1
          /\ idx <= Len(files) + 1
          /\ \A i \in DOMAIN attempts : attempts[i].file = files[i]
    /\ pc = "loop" => ENABLED (ProcessFile \/ SaveLanguages)
    /\ pc = "aborted" => fatal # "none"
    /\ pc = "done" =>
          /\ Len(attempts) = Len(files)
          /\ disk.exists
          /\ \A i \in DOMAIN attempts :
                LET a == attempts[i]
                    info == get_lang_info(a.response).value
                IN  a.ok =>
                      /\ a.key \in DOMAIN disk.content
                      /\ disk.content[a.key] =
                            IF a.key \in DOMAIN loaded
                            THEN merge_lang_info(loaded[a.key], info).merged
                            ELSE info

\* a run saved after a failure, a success, and the other order
C6_Witness ==
    /\ pc = "done"
    /\ Len(attempts) = 2
    /\ ~attempts[1].ok
    /\ attempts[2].ok
    /\ attempts[2].key \in DOMAIN loaded

\* C7: End-to-end. Without a catalog, a listed de_de.json with language.code de_de,
\* language.name Deutsch and language.region Deutschland is stored under de_de as
\* iso_code de_de, native Deutsch / Deutschland, english German / Germany.
C7_EndToEnd ==
    ( /\ pc = "done"
      /\ ~startDisk.exists
      /\ \E i \in DOMAIN attempts :
            /\ attempts[i].file = F_de_de
            /\ attempts[i].response = [status_code |-> 200, data |-> D_de_de] )
    => /\ K_de_de \in DOMAIN disk.content
       /\ disk.content[K_de_de] =
             [iso_code |-> K_de_de,
              native |-> [name |-> "Deutsch", region |-> "Deutschland"],
              english |-> [name |-> "German", region |-> "Germany"]]

\* C8: Merge idempotence. Merging a record with new data equal to it returns the
\* record unchanged.
C8_MergeIdempotence ==
    (call.made /\ call.existing = call.new) =>
        /\ ~call.ret.raised
        /\ call.ret.merged = call.existing

\* the second run fetched what the first run stored, placeholder included
C8_Witness ==
    /\ Returned
    /\ call.existing = call.new
    /\ call.new["english"]["name"] = "?"
    /\ call.new["english"]["region"] # "?"
    /\ run = 2

\* C9: Records are never deleted. Every key of the catalog file before a run is a
\* key of the file after it, every loaded key stays in the in-memory catalog, and
\* a loaded key that is not listed is saved with exactly its loaded record.
C9_NeverDeleted ==
    /\ startDisk.exists => disk.exists
    /\ DOMAIN startDisk.content \subseteq DOMAIN disk.content
    /\ pc \in {"loop", "done"} => DOMAIN loaded \subseteq DOMAIN languages
    /\ pc = "done" =>
          \A k \in DOMAIN loaded :
              (\A i \in DOMAIN files : KeyOf(files[i]) # k) =>
                  /\ k \in DOMAIN disk.content
                  /\ disk.content[k] = loaded[k]

\* a run saved after processing a file other than the one of a loaded key
C9_Witness ==
    /\ pc = "done"
    /\ K_de_de \in DOMAIN loaded
    /\ files = <<F_fil_ph>>
    /\ attempts[1].ok

\* C10: State unchanged on per-file error. An iteration that fails, in the fetch,
\* in the parsing or inside merge_lang_info, leaves the in-memory catalog exactly
\* as it was, and the save writes the failed key's entry as it was.
C10_UnchangedOnError ==
    /\ \A i \in DOMAIN attempts :
          ~attempts[i].ok => attempts[i].after = attempts[i].before
    /\ pc = "done" =>
          \A i \in DOMAIN attempts :
              LET a == attempts[i]
              IN  ~a.ok =>
                    /\ a.key \in DOMAIN disk.content <=> a.key \in DOMAIN a.before
                    /\ a.key \in DOMAIN a.before => disk.content[a.key] = a.before[a.key]

\* a run saved after merge_lang_info raised on a record without english section
C10_Witness ==
    /\ pc = "done"
    /\ call.made
    /\ call.ret.raised
    /\ \E i \in DOMAIN attempts :
          /\ ~attempts[i].ok
          /\ attempts[i].key \in DOMAIN attempts[i].before
          /\ ~HasEnglish(attempts[i].before[attempts[i].key])
          /\ ~get_lang_info(attempts[i].response).raised

====
